---- MODULE Spec2Model ----
(***************************************************************************)
(* Model of the authentication flow (registration, login, token refresh),  *)
(* the route-level access gate and the response interceptor of the NestJS  *)
(* template service.                                                       *)
(*                                                                         *)
(* Time is the JWT clock, in seconds.  A signed token is the record of its *)
(* claims plus the key that signed it; verification compares that key with *)
(* the secret it is given and the clock with the expiry.                   *)
(***************************************************************************)
EXTENDS Integers, Sequences, FiniteSets, TLC

VARIABLES
    access_secret,   \* ConfigProps.access_secret  (ACCESS_SECRET_KEY)
    refresh_secret,  \* ConfigProps.refresh_secret (REFRESH_SECRET_KEY)
    users,           \* rows of table `users`, in insertion order
    plain,           \* history: plain[i] is the password users[i] registered with
    now,             \* the clock, in seconds
    ticks,           \* how many times the clock advanced
    held,            \* the token pair a client keeps from a login
    req,             \* the last request
    resp,            \* the outcome of the last request
    handled,         \* what the last intercepted handler produced
    envelope,        \* the envelope the interceptor emitted for it
    todos,           \* rows of table `todos`
    auto_increment,  \* the id the next inserted todo gets
    inflight,        \* the TodosService calls that are between two awaits
    finished,        \* the TodosService call that completed last
    deleted_ok,      \* history: per id, how many remove calls replied success
    wire             \* what the caller of the last HTTP request received

vars == <<access_secret, refresh_secret, users, plain, now, ticks, held,
          req, resp, handled, envelope, todos, auto_increment, inflight,
          finished, deleted_ok, wire>>

authVars == <<access_secret, refresh_secret, users, plain, now, ticks, held,
              req, resp>>

todoVars == <<todos, auto_increment, inflight, finished, deleted_ok>>

(***************************************************************************)
(* Bounds and input domains                                                *)
(***************************************************************************)
MaxUsers == 2
MaxTicks == 1

Emails == {"a@x.io", "b@x.io"}
Passwords == {"password123", "hunter2"}
Names == {"Test User"}
Keys == {"key-one", "key-two"}
Salts == {"saltA"}

(***************************************************************************)
(* Program constants                                                       *)
(***************************************************************************)
BcryptRounds == 10
AccessTtl == 60
RefreshTtl == 604800

(***************************************************************************)
(* Password hasher (bcrypt): the hash embeds cost and salt; compare        *)
(* recomputes the digest from the embedded salt.                           *)
(***************************************************************************)
bcrypt_hash(password, rounds, salt) ==
    [rounds |-> rounds, salt |-> salt, digest |-> <<rounds, salt, password>>]

bcrypt_compare(password, hash) ==
    hash.digest = <<hash.rounds, hash.salt, password>>

(***************************************************************************)
(* Words of a header and tokens.  Every word has the same shape: a piece   *)
(* of text, a well-formed JWT, or the JavaScript value undefined.          *)
(***************************************************************************)
Undefined ==
    [form |-> "undefined", text |-> "", id |-> 0, email |-> "", iat |-> 0,
     exp |-> 0, key |-> ""]

Text(s) ==
    [form |-> "text", text |-> s, id |-> 0, email |-> "", iat |-> 0,
     exp |-> 0, key |-> ""]

NoPayload == [id |-> 0, email |-> "", iat |-> 0, exp |-> 0]

\* JwtService.sign(payload, {secret, expiresIn}) at clock t
sign(payload, secret, ttl, t) ==
    [form |-> "jwt", text |-> "", id |-> payload.id, email |-> payload.email,
     iat |-> t, exp |-> t + ttl, key |-> secret]

\* the errors of the jsonwebtoken library: plain Errors, no status, no response
JwtError(name, msg) ==
    [status |-> "<absent>", response_message |-> "<absent>",
     response_error |-> "<absent>", message |-> msg, name |-> name]

NoJwtError == JwtError("<absent>", "<absent>")

\* JwtService.verify(token, {secret}) at clock t: the payload, or the error
verify(token, secret, t) ==
    IF token.form = "undefined" \/ (token.form = "text" /\ token.text = "")
    THEN [ok |-> FALSE, payload |-> NoPayload,
          err |-> JwtError("JsonWebTokenError", "jwt must be provided")]
    ELSE IF token.form = "text"
    THEN [ok |-> FALSE, payload |-> NoPayload,
          err |-> JwtError("JsonWebTokenError", "jwt malformed")]
    ELSE IF token.key # secret
    THEN [ok |-> FALSE, payload |-> NoPayload,
          err |-> JwtError("JsonWebTokenError", "invalid signature")]
    ELSE IF t >= token.exp
    THEN [ok |-> FALSE, payload |-> NoPayload,
          err |-> JwtError("TokenExpiredError", "jwt expired")]
    ELSE [ok |-> TRUE, err |-> NoJwtError,
          payload |-> [id |-> token.id, email |-> token.email,
                       iat |-> token.iat, exp |-> token.exp]]

(***************************************************************************)
(* Exceptions of @nestjs/common as the interceptor sees them: status, the  *)
(* nested response {message, error}, the Error's own message and name.     *)
(* JavaScript atoms are written as strings; Absent marks a missing field.  *)
(***************************************************************************)
Absent == "<absent>"

NoError ==
    [status |-> Absent, response_message |-> Absent, response_error |-> Absent,
     message |-> Absent, name |-> Absent]

NotFoundException(msg) ==
    [status |-> "404", response_message |-> msg, response_error |-> "Not Found",
     message |-> msg, name |-> "NotFoundException"]

UnauthorizedException(msg) ==
    [status |-> "401", response_message |-> msg,
     response_error |-> "Unauthorized", message |-> msg,
     name |-> "UnauthorizedException"]

\* what a handler (or the gate in front of it) produced
Returned(msg, accessToken, refreshToken) ==
    [kind |-> "return", error |-> NoError, message |-> msg,
     accessToken |-> accessToken, refreshToken |-> refreshToken]

Thrown(e) ==
    [kind |-> "throw", error |-> e, message |-> Absent,
     accessToken |-> Undefined, refreshToken |-> Undefined]

NoOutcome ==
    [kind |-> "none", error |-> NoError, message |-> Absent,
     accessToken |-> Undefined, refreshToken |-> Undefined]

(***************************************************************************)
(* UsersService                                                            *)
(***************************************************************************)
NoUser == [id |-> 0, name |-> "", email |-> "",
           password |-> bcrypt_hash("", 0, "")]

\* usersRepository.findOne({where: {email}}): the rows the store may answer
\* with.  The column carries no unique index and the query no ORDER BY, so
\* any matching row can be the one returned; no match gives null.
findOneByEmail(email) ==
    {i \in 1..Len(users) : users[i].email = email}

\* usersRepository.findOne({where: {id}}): id is the primary key
findOneById(id) ==
    {i \in 1..Len(users) : users[i].id = id}

\* findUserByEmailAndPassword without the password comparison
findUserByEmailOnly(email, password) ==
    IF findOneByEmail(email) = {}
    THEN {[ok |-> FALSE, user |-> NoUser,
           error |-> NotFoundException("User not found")]}
    ELSE {[ok |-> TRUE, user |-> users[i], error |-> NoError]
          : i \in findOneByEmail(email)}

\* UsersService.findUserByEmailAndPassword: every result it can produce
findUserByEmailAndPassword(email, password) ==
    IF findOneByEmail(email) = {}
    THEN {[ok |-> FALSE, user |-> NoUser,
           error |-> NotFoundException("User not found")]}
    ELSE {IF bcrypt_compare(password, users[i].password)
          THEN [ok |-> TRUE, user |-> users[i], error |-> NoError]
          ELSE [ok |-> FALSE, user |-> NoUser,
                error |-> UnauthorizedException("Invalid password")]
          : i \in findOneByEmail(email)}

\* UsersService.findUserById
findUserById(id) ==
    IF findOneById(id) = {}
    THEN [ok |-> FALSE, user |-> NoUser,
          error |-> NotFoundException("User not found")]
    ELSE [ok |-> TRUE, user |-> users[CHOOSE i \in findOneById(id) : TRUE],
          error |-> NoError]

(***************************************************************************)
(* AuthService                                                             *)
(***************************************************************************)
\* the expiresIn of the access token ('1m') and of the refresh token ('7d')
accessExpiresIn == AccessTtl
refreshExpiresIn == RefreshTtl

\* the secret AuthService.login signs the access token with
loginAccessSecret == access_secret

\* the secret AuthService.refreshToken verifies the presented token with
refreshVerifySecret == refresh_secret

\* AuthService.login: every outcome it can produce for loginDto
login(email, password) ==
    {IF ~r.ok
     THEN Thrown(r.error)
     ELSE Returned(Absent,
                   sign([id |-> r.user.id, email |-> r.user.email],
                        loginAccessSecret, accessExpiresIn, now),
                   sign([id |-> r.user.id, email |-> r.user.email],
                        refresh_secret, refreshExpiresIn, now))
     : r \in findUserByEmailAndPassword(email, password)}

\* a catch block that lets the lookup's NotFoundException through
refreshCatchRethrow(error) ==
    IF error.status = "404"
    THEN error
    ELSE UnauthorizedException("Invalid refresh token")

\* what the catch block of AuthService.refreshToken throws for any error
refreshCatch(error) == UnauthorizedException("Invalid refresh token")

\* a refreshToken that rotates: it signs a new refresh token as well
refreshTokenRotating(token) ==
    LET v == verify(token, refresh_secret, now)
        u == findUserById(v.payload.id)
    IN  IF ~v.ok
        THEN Thrown(UnauthorizedException("Invalid refresh token"))
        ELSE IF ~u.ok
        THEN Thrown(UnauthorizedException("Invalid refresh token"))
        ELSE Returned(Absent,
                      sign([id |-> u.user.id, email |-> u.user.email],
                           access_secret, AccessTtl, now),
                      sign([id |-> u.user.id, email |-> u.user.email],
                           refresh_secret, RefreshTtl, now))

\* AuthService.refreshToken
refreshToken(token) ==
    LET v == verify(token, refreshVerifySecret, now)
        u == findUserById(v.payload.id)
    IN  IF ~v.ok
        THEN Thrown(refreshCatch(v.err))
        ELSE IF ~u.ok
        THEN Thrown(refreshCatch(u.error))
        ELSE Returned(Absent,
                      sign([id |-> u.user.id, email |-> u.user.email],
                           access_secret, accessExpiresIn, now),
                      Undefined)

(***************************************************************************)
(* AuthController and the access gate                                      *)
(***************************************************************************)
NoHeader == [present |-> FALSE, words |-> <<>>]
Header(ws) == [present |-> TRUE, words |-> ws]

\* header?.split(' ')?.[1]
secondWord(header) ==
    IF header.present /\ Len(header.words) >= 2
    THEN header.words[2]
    ELSE Undefined

\* a controller in which no route carries the marker
IsPublicNowhere(route) == FALSE

\* the routes carrying the @Public() marker
IsPublic(route) == route = "auth/refresh-token"

\* The gate: passes a public route; otherwise takes the Bearer credential of
\* the Authorization header and verifies it under the access secret.
canActivate(route, authorization) ==
    LET scheme == IF authorization.present /\ Len(authorization.words) >= 1
                  THEN authorization.words[1] ELSE Undefined
        token  == IF scheme = Text("Bearer")
                  THEN secondWord(authorization) ELSE Undefined
        v      == verify(token, access_secret, now)
    IN  IF IsPublic(route)
        THEN [pass |-> TRUE, user |-> NoPayload]
        ELSE IF v.ok
        THEN [pass |-> TRUE, user |-> v.payload]
        ELSE [pass |-> FALSE, user |-> NoPayload]

(***************************************************************************)
(* ResponseInterceptor.  A JavaScript value is an atom (undefined, null, a *)
(* number, a boolean, a string, all written as strings) or an object whose *)
(* fields data, message and meta hold atoms or are Absent.                 *)
(***************************************************************************)
Atom(a) ==
    [kind |-> "atom", atom |-> a, data |-> Absent, message |-> Absent,
     meta |-> Absent]

Object(d, m, t) ==
    [kind |-> "object", atom |-> Absent, data |-> d, message |-> m,
     meta |-> t]

\* the atoms JavaScript treats as false in a condition
Falsy == {"undefined", "null", "0", "false", "''", "NaN"}

Truthy(a) == a \notin Falsy

\* a || b
Or(a, b) == IF Truthy(a) THEN a ELSE b

Nullish(v) == v.kind = "atom" /\ v.atom \in {"undefined", "null"}

\* reading a field that may be missing
Read(field) == IF field = Absent THEN "undefined" ELSE field

\* v?.field, also what v.field gives when v is not null or undefined
Get(v, field) ==
    IF v.kind = "object" THEN Read(field) ELSE "undefined"

NoEnvelope ==
    [shape |-> "none", statusCode |-> Absent, message |-> Absent,
     data |-> Atom(Absent), meta |-> Absent, error |-> Absent]

\* an error callback that prefers the failure's own message and name
catchErrorOwnFirst(error) ==
    [shape |-> "error",
     statusCode |-> Or(Read(error.status), "500"),
     message |-> Or(Or(Read(error.message), Read(error.response_message)),
                    "Internal server error"),
     error |-> Or(Or(Read(error.name), Read(error.response_error)), "Error"),
     data |-> Atom("null"),
     meta |-> Absent]

\* the error callback of the interceptor: the envelope it rethrows for error
catchError(error) ==
    [shape |-> "error",
     statusCode |-> Or(Read(error.status), "500"),
     message |-> Or(Or(Read(error.response_message), Read(error.message)),
                    "Internal server error"),
     error |-> Or(Or(Read(error.response_error), Read(error.name)), "Error"),
     data |-> Atom("null"),
     meta |-> Absent]

\* reading a property of null or undefined
TypeError ==
    [status |-> Absent, response_message |-> Absent, response_error |-> Absent,
     message |-> "Cannot read properties of undefined (reading 'message')",
     name |-> "TypeError"]

\* the data field of the success envelope
envelopeData(data) ==
    IF Truthy(Get(data, data.data))
    THEN Atom(Get(data, data.data))
    ELSE IF Truthy(Get(data, data.message)) /\ ~Truthy(Get(data, data.data))
    THEN Atom("undefined")
    ELSE data

\* a message that ignores response.locals
envelopeMessageNoLocals(data, locals_message) ==
    Or(Get(data, data.message), "Success")

\* the message field of the success envelope
envelopeMessage(data, locals_message) ==
    Or(Get(data, data.message), Or(locals_message, "Success"))

\* the map callback of the interceptor for the handler result data; an
\* exception it raises reaches the error callback of the same pipe
intercept(data, locals_message, statusCode) ==
    IF Nullish(data)
    THEN catchError(TypeError)
    ELSE [shape |-> "success",
          statusCode |-> Or(statusCode, "200"),
          message |-> envelopeMessage(data, locals_message),
          data |-> envelopeData(data),
          meta |-> Get(data, data.meta),
          error |-> Absent]

NoHandled ==
    [kind |-> "none", value |-> Atom(Absent), error |-> NoError,
     locals_message |-> Absent, statusCode |-> Absent]

(***************************************************************************)
(* Requests                                                                *)
(***************************************************************************)
NoRequest ==
    [route |-> "", authorization |-> NoHeader, refresh_token |-> NoHeader,
     email |-> "", password |-> "", name |-> "", at |-> 0]

NoResponse == [reached |-> FALSE, user |-> NoPayload, outcome |-> NoOutcome]

NoTokens == [accessToken |-> Undefined, refreshToken |-> Undefined]

\* tokens minted outside this service instance by a holder of some key
ForeignTokens ==
    {sign([id |-> 1, email |-> "a@x.io"], k, AccessTtl, 0) : k \in Keys}

\* what a client can put after the scheme of a header
Credentials ==
    ({held.accessToken, held.refreshToken} \ {Undefined})
        \cup ForeignTokens \cup {Text("garbage")}

AuthorizationHeaders ==
    {NoHeader, Header(<<Text("Bearer")>>)}
        \cup {Header(<<Text("Bearer"), t>>) : t \in Credentials}
        \cup {Header(<<Text("Basic"), t>>) : t \in ForeignTokens}

RefreshHeaders ==
    {NoHeader, Header(<<Text("Bearer")>>),
     Header(<<Text("Bearer"), Text(""), Text("garbage")>>)}
        \cup {Header(<<Text("Bearer"), t>>) : t \in Credentials}

\* the client keeps the pair of a successful login, or keeps what it had
Kept(outcome) ==
    IF outcome.kind = "return" /\ outcome.refreshToken.form = "jwt"
    THEN {held, [accessToken |-> outcome.accessToken,
                 refreshToken |-> outcome.refreshToken]}
    ELSE {held}

(***************************************************************************)
(* Table `todos` and TodosService.  An object is a record whose domain is  *)
(* the set of fields it has.  update and remove look the todo up and write *)
(* in two separate calls of the repository; other requests run in between. *)
(***************************************************************************)
MaxTodos == 2

Slots == {"first", "second"}
CreateTitle == "Buy groceries"
UpdateTitle == "Buy milk"
Description == "Milk, eggs"

\* the request bodies: the declared fields, and a create body that carries
\* a user_id of its own
CreateTodoDtos ==
    {[title |-> CreateTitle, description |-> Description]}
        \cup {[title |-> CreateTitle, description |-> Description,
               user_id |-> u] : u \in 1..MaxUsers}

UpdateTodoDtos == {[title |-> UpdateTitle]}

\* {...a, ...b}: the fields of b win
Spread(a, b) ==
    [k \in DOMAIN a \cup DOMAIN b |-> IF k \in DOMAIN b THEN b[k] ELSE a[k]]

createEntityDtoLast(createTodoDto, user) ==
    Spread([user_id |-> user.id], createTodoDto)

\* the object create() saves: {...createTodoDto, user_id: user.id}
createEntity(createTodoDto, user) ==
    Spread(createTodoDto, [user_id |-> user.id])

\* todoRepository.save(entity): one INSERT of the columns of TodoEntity
todoRepository_save(rows, entity, id, at) ==
    rows \cup {[id |-> id, title |-> entity.title,
                description |-> entity.description,
                user_id |-> entity.user_id, created_at |-> at]}

\* todoRepository.find({where: {user_id}})
todoRepository_find(rows, user_id) == {t \in rows : t.user_id = user_id}

\* todoRepository.findOne({where: {id}})
todoRepository_findOne(rows, id) == {t \in rows : t.id = id}

\* todoRepository.update(id, updateTodoDto): UPDATE ... WHERE id = ?
todoRepository_update(rows, id, updateTodoDto) ==
    {IF t.id = id THEN Spread(t, updateTodoDto) ELSE t : t \in rows}

todoRepository_deleteEvery(rows, id) == {}

\* todoRepository.delete(id): DELETE ... WHERE id = ?
todoRepository_delete(rows, id) == {t \in rows : t.id # id}

\* the rows a statement with WHERE id = ? touches
affectedRows(rows, id) == Cardinality(todoRepository_findOne(rows, id))

\* a call of the service; caller is the user the request came from, which
\* findOne, update and remove are not given
TodoRequest(op, caller, id, dto) ==
    [op |-> op, caller |-> caller, id |-> id, dto |-> dto]

NoDto == <<>>
NoTodoRequest == TodoRequest("none", 0, 0, NoDto)

lookupOwned(request, rows) ==
    {t \in todoRepository_findOne(rows, request.id) :
        t.user_id = request.caller}

\* the lookup findOne, update and remove start with
lookup(request, rows) == todoRepository_findOne(rows, request.id)

Idle == [pc |-> "idle", request |-> NoTodoRequest, todo |-> {}]

NoFinished ==
    [request |-> NoTodoRequest, outcome |-> NoOutcome, todo |-> {},
     affected |-> 0]

\* nothing was sent to a caller yet
NoWire ==
    [from |-> "none", http |-> Absent, statusCode |-> Absent,
     message |-> Absent, error |-> Absent, data |-> Atom(Absent)]

(***************************************************************************)
(* Initial state: the configuration is read from the environment once.     *)
(***************************************************************************)
Init ==
    /\ access_secret = "key-one"
    /\ refresh_secret \in Keys
    /\ users = <<>>
    /\ plain = <<>>
    /\ now = 0
    /\ ticks = 0
    /\ held = NoTokens
    /\ req = NoRequest
    /\ resp = NoResponse
    /\ handled = NoHandled
    /\ envelope = NoEnvelope
    /\ todos = {}
    /\ auto_increment = 1
    /\ inflight = [s \in Slots |-> Idle]
    /\ finished = NoFinished
    /\ deleted_ok = [id \in 1..MaxTodos |-> 0]
    /\ wire = NoWire

(***************************************************************************)
(* Actions                                                                 *)
(***************************************************************************)
\* UsersService.create(createUserDto)
Register(name, email, password, salt) ==
    /\ Len(users) < MaxUsers
    /\ users' = Append(users,
                       [id |-> Len(users) + 1, name |-> name, email |-> email,
                        password |-> bcrypt_hash(password, BcryptRounds, salt)])
    /\ plain' = Append(plain, password)
    /\ req' = [NoRequest EXCEPT !.route = "users", !.at = now, !.name = name,
                                !.email = email, !.password = password]
    /\ resp' = [reached |-> TRUE, user |-> NoPayload,
                outcome |-> Returned("User created successfully",
                                     Undefined, Undefined)]
    /\ UNCHANGED <<access_secret, refresh_secret, now, ticks, held,
                   handled, envelope, todoVars, wire>>

\* the gate turned the request away: no handler runs
Rejected ==
    /\ resp' = [reached |-> FALSE, user |-> NoPayload,
                outcome |-> Thrown(UnauthorizedException("Unauthorized"))]
    /\ held' = held

\* AuthController.login -> AuthService.login, for the identity the gate attached
LoginHandler(email, password, user) ==
    \E o \in login(email, password) :
        /\ resp' = [reached |-> TRUE, user |-> user, outcome |-> o]
        /\ held' \in Kept(o)

\* AuthController.refreshToken -> AuthService.refreshToken
RefreshTokenHandler(header, user) ==
    /\ resp' = [reached |-> TRUE, user |-> user,
                outcome |-> refreshToken(secondWord(header))]
    /\ held' = held

\* AuthController.login invoked for a request that passed the gate
Login(email, password) ==
    /\ req' = [NoRequest EXCEPT !.route = "login()", !.at = now,
                                !.email = email, !.password = password]
    /\ LoginHandler(email, password, NoPayload)
    /\ UNCHANGED <<access_secret, refresh_secret, users, plain, now, ticks,
                   handled, envelope, todoVars, wire>>

\* POST auth/login: the gate, then AuthController.login
HttpLogin(authorization, email, password) ==
    LET g == canActivate("auth/login", authorization)
    IN  /\ req' = [NoRequest EXCEPT !.route = "auth/login", !.at = now,
                                    !.authorization = authorization,
                                    !.email = email, !.password = password]
        /\ IF g.pass
           THEN LoginHandler(email, password, g.user)
           ELSE Rejected
        /\ UNCHANGED <<access_secret, refresh_secret, users, plain, now, ticks,
                       handled, envelope, todoVars, wire>>

\* POST auth/refresh-token: the gate, then AuthController.refreshToken
HttpRefreshToken(authorization, header) ==
    LET g == canActivate("auth/refresh-token", authorization)
    IN  /\ req' = [NoRequest EXCEPT !.route = "auth/refresh-token",
                                    !.at = now,
                                    !.authorization = authorization,
                                    !.refresh_token = header]
        /\ IF g.pass
           THEN RefreshTokenHandler(header, g.user)
           ELSE Rejected
        /\ UNCHANGED <<access_secret, refresh_secret, users, plain, now, ticks,
                       handled, envelope, todoVars, wire>>

\* the clock advances
Tick(d) ==
    /\ ticks < MaxTicks
    /\ now' = now + d
    /\ ticks' = ticks + 1
    /\ UNCHANGED <<access_secret, refresh_secret, users, plain, held, req,
                   resp, handled, envelope, todoVars, wire>>

\* migration down then up: both tables are dropped and created again, empty
\* and with AUTO_INCREMENT back at 1
MigrationRevertRun ==
    /\ users # <<>>
    /\ users' = <<>>
    /\ plain' = <<>>
    /\ req' = NoRequest
    /\ resp' = NoResponse
    /\ todos' = {}
    /\ auto_increment' = 1
    /\ UNCHANGED <<access_secret, refresh_secret, now, ticks, held,
                   handled, envelope, inflight, finished, deleted_ok, wire>>

\* the authentication flow: registrations, logins that passed the gate,
\* refreshes, time and schema resets
Next ==
    \/ \E n \in Names, e \in Emails, p \in Passwords, s \in Salts :
            Register(n, e, p, s)
    \/ \E e \in Emails, p \in Passwords : Login(e, p)
    \/ \E h \in RefreshHeaders : HttpRefreshToken(NoHeader, h)
    \/ \E d \in {AccessTtl, RefreshTtl} : Tick(d)
    \/ MigrationRevertRun

Spec == Init /\ [][Next]_vars

\* the gate in front of the auth routes: one registered password, every
\* Authorization header
NextGate ==
    \/ \E e \in Emails, s \in Salts :
            Register("Test User", e, "password123", s)
    \/ \E h \in AuthorizationHeaders, e \in Emails :
            HttpLogin(h, e, "password123")
    \/ \E a \in {NoHeader, Header(<<Text("Bearer"), Text("garbage")>>)},
          h \in RefreshHeaders :
            HttpRefreshToken(a, h)
    \/ \E d \in {AccessTtl, RefreshTtl} : Tick(d)

SpecGate == Init /\ [][NextGate]_vars

(***************************************************************************)
(* The interceptor on its own: every handler result and every failure      *)
(***************************************************************************)
DataValues == {Absent, "undefined", "null", "0", "false", "''", "[1, 2]"}
MessageValues == {Absent, "''", "Todo created successfully"}

HandlerResults ==
    {Atom("undefined"), Atom("null"), Atom("plain text")}
        \cup {Object(d, m, t) : d \in DataValues, m \in MessageValues,
                                t \in {Absent, "{page: 1}"}}

LocalsMessages == {"undefined", "Custom message"}
StatusCodes == {"undefined", "200", "201"}

Failures ==
    {[status |-> st, response_message |-> rm, response_error |-> re,
      message |-> m, name |-> n] :
        st \in {Absent, "0", "404"},
        rm \in {Absent, "''", "User not found"},
        re \in {Absent, "''", "Not Found"},
        m \in {Absent, "''", "boom"},
        n \in {Absent, "NotFoundException"}}

\* a handler returned data: the map callback runs
InterceptReturn(data, locals_message, statusCode) ==
    /\ handled' = [kind |-> "return", value |-> data, error |-> NoError,
                   locals_message |-> locals_message,
                   statusCode |-> statusCode]
    /\ envelope' = intercept(data, locals_message, statusCode)
    /\ UNCHANGED <<authVars, todoVars, wire>>

\* a handler threw error: the error callback runs
InterceptThrow(error) ==
    /\ handled' = [kind |-> "throw", value |-> Atom(Absent), error |-> error,
                   locals_message |-> Absent, statusCode |-> Absent]
    /\ envelope' = catchError(error)
    /\ UNCHANGED <<authVars, todoVars, wire>>

NextNormalizer ==
    \/ \E r \in HandlerResults, l \in LocalsMessages, c \in StatusCodes :
            InterceptReturn(r, l, c)
    \/ \E e \in Failures : InterceptThrow(e)

SpecNormalizer == Init /\ [][NextNormalizer]_vars

(***************************************************************************)
(* TodosService.  A call that passed the gate comes from a stored user.    *)
(***************************************************************************)
\* the identity the gate attaches for stored user i
User(i) == [id |-> users[i].id, email |-> users[i].email]

Finish(request, outcome, todo, affected) ==
    [request |-> request, outcome |-> outcome, todo |-> todo,
     affected |-> affected]

\* TodosService.create(createTodoDto, user)
TodosCreate(createTodoDto, user) ==
    /\ auto_increment <= MaxTodos
    /\ todos' = todoRepository_save(todos, createEntity(createTodoDto, user),
                                    auto_increment, now)
    /\ auto_increment' = auto_increment + 1
    /\ finished' = Finish(TodoRequest("create", user.id, 0, createTodoDto),
                          Returned("Todo created successfully",
                                   Undefined, Undefined), {}, 1)
    /\ UNCHANGED <<authVars, handled, envelope, inflight, deleted_ok, wire>>

\* TodosService.findAll(user)
TodosFindAll(user) ==
    /\ finished' = Finish(TodoRequest("findAll", user.id, 0, NoDto),
                          Returned(Absent, Undefined, Undefined),
                          todoRepository_find(todos, user.id), 0)
    /\ UNCHANGED <<authVars, handled, envelope, todos, auto_increment,
                   inflight, deleted_ok, wire>>

\* TodosService.findOne(id) on the stored rows
findOne(request, rows) ==
    LET todo == lookup(request, rows)
    IN  IF todo = {}
        THEN Finish(request, Thrown(NotFoundException("Todo not found")),
                    {}, 0)
        ELSE Finish(request, Returned(Absent, Undefined, Undefined), todo, 0)

\* TodosService.findOne(id), called for caller
TodosFindOne(caller, id) ==
    LET request == TodoRequest("findOne", caller, id, NoDto)
    IN  /\ finished' = findOne(request, todos)
        /\ UNCHANGED <<authVars, handled, envelope, todos, auto_increment,
                       inflight, deleted_ok, wire>>

\* the first await of update and of remove: the lookup, and NotFound
Find(slot, request) ==
    LET todo == lookup(request, todos)
    IN  /\ inflight[slot].pc = "idle"
        /\ IF todo = {}
           THEN /\ finished' =
                        Finish(request,
                               Thrown(NotFoundException("Todo not found")),
                               {}, 0)
                /\ inflight' = inflight
           ELSE /\ inflight' = [inflight EXCEPT ![slot] =
                                    [pc |-> "found", request |-> request,
                                     todo |-> todo]]
                /\ finished' = finished
        /\ UNCHANGED <<authVars, handled, envelope, todos, auto_increment,
                       deleted_ok, wire>>

\* TodosService.update(id, updateTodoDto), called for caller: the lookup
TodosUpdateFind(slot, caller, id, updateTodoDto) ==
    Find(slot, TodoRequest("update", caller, id, updateTodoDto))

\* TodosService.update: the write and the reply
TodosUpdateWrite(slot) ==
    LET request == inflight[slot].request
    IN  /\ inflight[slot].pc = "found"
        /\ request.op = "update"
        /\ todos' = todoRepository_update(todos, request.id, request.dto)
        /\ finished' = Finish(request,
                              Returned("Todo updated successfully",
                                       Undefined, Undefined),
                              inflight[slot].todo,
                              affectedRows(todos, request.id))
        /\ inflight' = [inflight EXCEPT ![slot] = Idle]
        /\ UNCHANGED <<authVars, handled, envelope, auto_increment,
                       deleted_ok, wire>>

\* TodosService.remove(id), called for caller: the lookup
TodosRemoveFind(slot, caller, id) ==
    Find(slot, TodoRequest("remove", caller, id, NoDto))

\* TodosService.remove: the delete and the reply
TodosRemoveWrite(slot) ==
    LET request == inflight[slot].request
    IN  /\ inflight[slot].pc = "found"
        /\ request.op = "remove"
        /\ todos' = todoRepository_delete(todos, request.id)
        /\ finished' = Finish(request,
                              Returned("Todo deleted successfully",
                                       Undefined, Undefined),
                              inflight[slot].todo,
                              affectedRows(todos, request.id))
        /\ deleted_ok' = [deleted_ok EXCEPT ![request.id] = @ + 1]
        /\ inflight' = [inflight EXCEPT ![slot] = Idle]
        /\ UNCHANGED <<authVars, handled, envelope, auto_increment, wire>>

\* registration for the todo routes: one account per email
RegisterTodoUser ==
    \E e \in Emails :
        /\ (e = "a@x.io") <=> (users = <<>>)
        /\ Register("Test User", e, "password123", "saltA")

\* the users' requests to the todo routes; one update or remove at a time,
\* with creates and reads between its lookup and its write
NextTodos ==
    \/ RegisterTodoUser
    \/ \E i \in 1..Len(users), dto \in CreateTodoDtos :
            TodosCreate(dto, User(i))
    \/ \E i \in 1..Len(users) : TodosFindAll(User(i))
    \/ \E i \in 1..Len(users), id \in 1..MaxTodos : TodosFindOne(i, id)
    \/ \E i \in 1..Len(users), id \in 1..MaxTodos, dto \in UpdateTodoDtos :
            TodosUpdateFind("first", i, id, dto)
    \/ TodosUpdateWrite("first")
    \/ \E i \in 1..Len(users), id \in 1..MaxTodos :
            TodosRemoveFind("first", i, id)
    \/ TodosRemoveWrite("first")

\* the secrets play no part here: one configuration
InitTodos == Init /\ refresh_secret = access_secret

SpecTodos == InitTodos /\ [][NextTodos]_vars

\* updates and removes of several requests overlapping
NextTodosRace ==
    \/ RegisterTodoUser
    \/ \E i \in 1..Len(users) :
            TodosCreate([title |-> CreateTitle, description |-> Description],
                        User(i))
    \/ \E s \in Slots, i \in 1..Len(users), id \in 1..MaxTodos,
          dto \in UpdateTodoDtos :
            TodosUpdateFind(s, i, id, dto)
    \/ \E s \in Slots : TodosUpdateWrite(s)
    \/ \E s \in Slots, i \in 1..Len(users), id \in 1..MaxTodos :
            TodosRemoveFind(s, i, id)
    \/ \E s \in Slots : TodosRemoveWrite(s)

SpecTodosRace == InitTodos /\ [][NextTodosRace]_vars

(***************************************************************************)
(* A whole HTTP request: the gate, the handler, the interceptor around the *)
(* handler, and the exception layer of the framework, which writes the     *)
(* response for whatever was thrown.  The gate runs before the interceptor *)
(* is entered: the interceptor sees what next.handle() produces only.      *)
(***************************************************************************)
\* the exception layer for an HttpException: its response object is the body
exceptionFilter(exception) ==
    [from |-> "filter", http |-> exception.status,
     statusCode |-> exception.status,
     message |-> exception.response_message,
     error |-> exception.response_error, data |-> Atom(Absent)]

\* the exception layer for a thrown value that is not an HttpException, such
\* as the plain object the interceptor rethrows: statusCode and message are
\* kept when both are set; every other field is dropped
handleUnknownError(exception) ==
    IF Truthy(Read(exception.statusCode)) /\ Truthy(Read(exception.message))
    THEN [from |-> "filter", http |-> exception.statusCode,
          statusCode |-> exception.statusCode,
          message |-> exception.message, error |-> Absent,
          data |-> Atom(Absent)]
    ELSE [from |-> "filter", http |-> "500", statusCode |-> "500",
          message |-> "Internal server error", error |-> Absent,
          data |-> Atom(Absent)]

\* the success envelope is the body of the response
send(body) ==
    [from |-> "interceptor", http |-> body.statusCode,
     statusCode |-> body.statusCode, message |-> body.message,
     error |-> Absent, data |-> body.data]

\* a failure of the store or of a library: an Error without status or response
InternalError ==
    [status |-> Absent, response_message |-> Absent, response_error |-> Absent,
     message |-> "connect ECONNREFUSED", name |-> "Error"]

\* what the interceptor and the exception layer make of the outcome resp'
Deliver(statusCode) ==
    LET o == resp'.outcome
        made == IF o.kind = "throw"
                THEN catchError(o.error)
                ELSE intercept(Object(Absent, o.message, Absent),
                               "undefined", statusCode)
    IN  IF ~resp'.reached
        THEN /\ handled' = NoHandled
             /\ envelope' = NoEnvelope
             /\ wire' = exceptionFilter(o.error)
        ELSE /\ handled' =
                    IF o.kind = "throw"
                    THEN [kind |-> "throw", value |-> Atom(Absent),
                          error |-> o.error, locals_message |-> Absent,
                          statusCode |-> Absent]
                    ELSE [kind |-> "return",
                          value |-> Object(Absent, o.message, Absent),
                          error |-> NoError, locals_message |-> "undefined",
                          statusCode |-> statusCode]
             /\ envelope' = made
             /\ wire' = IF made.shape = "error"
                        THEN handleUnknownError(made)
                        ELSE send(made)

\* POST auth/login
RequestLogin(authorization, email, password) ==
    LET g == canActivate("auth/login", authorization)
    IN  /\ req' = [NoRequest EXCEPT !.route = "auth/login", !.at = now,
                                    !.authorization = authorization,
                                    !.email = email, !.password = password]
        /\ IF g.pass
           THEN LoginHandler(email, password, g.user)
           ELSE Rejected
        /\ Deliver("201")
        /\ UNCHANGED <<access_secret, refresh_secret, users, plain, now, ticks,
                       todoVars>>

\* POST auth/refresh-token
RequestRefreshToken(authorization, header) ==
    LET g == canActivate("auth/refresh-token", authorization)
    IN  /\ req' = [NoRequest EXCEPT !.route = "auth/refresh-token",
                                    !.at = now,
                                    !.authorization = authorization,
                                    !.refresh_token = header]
        /\ IF g.pass
           THEN RefreshTokenHandler(header, g.user)
           ELSE Rejected
        /\ Deliver("201")
        /\ UNCHANGED <<access_secret, refresh_secret, users, plain, now, ticks,
                       todoVars>>

\* GET todos/:id
RequestFindOneTodo(authorization, id) ==
    LET g == canActivate("todos/:id", authorization)
        done == findOne(TodoRequest("findOne", g.user.id, id, NoDto), todos)
    IN  /\ req' = [NoRequest EXCEPT !.route = "todos/:id", !.at = now,
                                    !.authorization = authorization]
        /\ IF g.pass
           THEN /\ resp' = [reached |-> TRUE, user |-> g.user,
                            outcome |-> done.outcome]
                /\ finished' = done
                /\ held' = held
           ELSE /\ Rejected
                /\ finished' = finished
        /\ Deliver("200")
        /\ UNCHANGED <<access_secret, refresh_secret, users, plain, now, ticks,
                       todos, auto_increment, inflight, deleted_ok>>

\* GET todos while the store cannot be reached: find rejects
RequestTodosFails(authorization) ==
    LET g == canActivate("todos", authorization)
    IN  /\ req' = [NoRequest EXCEPT !.route = "todos", !.at = now,
                                    !.authorization = authorization]
        /\ IF g.pass
           THEN /\ resp' = [reached |-> TRUE, user |-> g.user,
                            outcome |-> Thrown(InternalError)]
                /\ held' = held
           ELSE Rejected
        /\ Deliver("200")
        /\ UNCHANGED <<access_secret, refresh_secret, users, plain, now, ticks,
                       todoVars>>

\* callers with no token and callers with a token that verifies
PipelineHeaders ==
    {NoHeader} \cup {Header(<<Text("Bearer"), t>>) : t \in ForeignTokens}

NextPipeline ==
    \/ \E e \in Emails, s \in Salts :
            Register("Test User", e, "password123", s)
    \/ \E h \in PipelineHeaders, e \in Emails, p \in Passwords :
            RequestLogin(h, e, p)
    \/ \E a \in PipelineHeaders, h \in RefreshHeaders :
            RequestRefreshToken(a, h)
    \/ \E h \in PipelineHeaders, id \in 1..MaxTodos :
            RequestFindOneTodo(h, id)
    \/ \E h \in PipelineHeaders : RequestTodosFails(h)

SpecPipeline == Init /\ [][NextPipeline]_vars

(***************************************************************************)
(* Properties of the authentication flow                                   *)
(***************************************************************************)
IsLogin == req.route \in {"login()", "auth/login"} /\ resp.reached
IsRefresh == req.route = "auth/refresh-token" /\ resp.reached

\* the token the last refresh request presented
presented == secondWord(req.refresh_token)

\* token t verified under secret at the time of the last request
VerifiedAt(t, secret, time) ==
    t.form = "jwt" /\ t.key = secret /\ time < t.exp

\* C1: after any registrations, for every stored user u and the password p it
\* registered with, login(u.email, p) succeeds and both returned tokens verify
\* under their own secret and decode to {id: u.id, email: u.email}.
C1_LoginOfRegisteredUser ==
    \A i \in 1..Len(users) :
        (IsLogin /\ req.email = users[i].email /\ req.password = plain[i])
            => /\ resp.outcome.kind = "return"
               /\ VerifiedAt(resp.outcome.accessToken, access_secret, req.at)
               /\ VerifiedAt(resp.outcome.refreshToken, refresh_secret, req.at)
               /\ resp.outcome.accessToken.id = users[i].id
               /\ resp.outcome.accessToken.email = users[i].email
               /\ resp.outcome.refreshToken.id = users[i].id
               /\ resp.outcome.refreshToken.email = users[i].email

\* the rows of the store carrying the email of the last request
rowsOfEmail == {i \in 1..Len(users) : users[i].email = req.email}

\* C2: login issues tokens only when the credentials check passes: no stored
\* user with the email gives NotFound (404, 'User not found'); a user found
\* whose hash does not verify the password gives 401 'Invalid password'; a
\* failed login signs no token and leaves the user store unchanged.
C2_LoginFailures ==
    /\ [](IsLogin =>
            /\ rowsOfEmail = {} =>
                    /\ resp.outcome.kind = "throw"
                    /\ resp.outcome.error.status = "404"
                    /\ resp.outcome.error.message = "User not found"
                    /\ resp.outcome.error.name = "NotFoundException"
            /\ (resp.outcome.kind = "throw" /\ rowsOfEmail # {}) =>
                    /\ \E i \in rowsOfEmail :
                            ~bcrypt_compare(req.password, users[i].password)
                    /\ resp.outcome.error.status = "401"
                    /\ resp.outcome.error.message = "Invalid password"
                    /\ resp.outcome.error.name = "UnauthorizedException"
            /\ (\A i \in rowsOfEmail :
                    ~bcrypt_compare(req.password, users[i].password))
                 => resp.outcome.kind = "throw"
            /\ resp.outcome.kind = "throw" =>
                    /\ resp.outcome.accessToken = Undefined
                    /\ resp.outcome.refreshToken = Undefined
            /\ resp.outcome.kind = "return" =>
                    \E i \in rowsOfEmail :
                        /\ bcrypt_compare(req.password, users[i].password)
                        /\ resp.outcome.accessToken.id = users[i].id
                        /\ resp.outcome.refreshToken.id = users[i].id)
    /\ [][(req'.route \in {"login()", "auth/login"} /\ resp'.reached
            /\ resp'.outcome.kind = "throw")
          => (users' = users /\ plain' = plain /\ held' = held)]_vars

\* a login failed on a wrong password for a stored email
C2_Witness ==
    /\ IsLogin
    /\ rowsOfEmail # {}
    /\ resp.outcome.kind = "throw"
    /\ resp.outcome.error.status = "401"

\* C3: every failure of refreshToken is the same Unauthorized failure (401,
\* 'Invalid refresh token'): missing header, no second part, garbage, wrong
\* secret, expired, and a valid token whose user id is not in the store.
C3_RefreshFailuresCollapse ==
    IsRefresh =>
        /\ resp.outcome.kind = "throw" =>
                /\ resp.outcome.error.status = "401"
                /\ resp.outcome.error.message = "Invalid refresh token"
                /\ resp.outcome.error.response_message = "Invalid refresh token"
                /\ resp.outcome.error.response_error = "Unauthorized"
                /\ resp.outcome.error.name = "UnauthorizedException"
                /\ resp.outcome.accessToken = Undefined
        /\ (\/ ~req.refresh_token.present
            \/ Len(req.refresh_token.words) < 2
            \/ presented.form # "jwt"
            \/ presented.key # refresh_secret
            \/ req.at >= presented.exp
            \/ \A i \in 1..Len(users) : users[i].id # presented.id)
              => resp.outcome.kind = "throw"

\* refresh failed for a validly signed, unexpired token issued by a login
\* whose user is no longer stored
C3_Witness ==
    /\ IsRefresh
    /\ resp.outcome.kind = "throw"
    /\ presented = held.refreshToken
    /\ VerifiedAt(presented, refresh_secret, req.at)
    /\ \A i \in 1..Len(users) : users[i].id # presented.id

\* C4: token kinds are never interchangeable: a token issued as one kind fails
\* verification under the other kind's secret, and an access token presented
\* to refreshToken is rejected with Unauthorized.
C4_KindsNotInterchangeable ==
    /\ (IsLogin \/ IsRefresh) =>
            /\ ~VerifiedAt(resp.outcome.accessToken, refresh_secret, req.at)
            /\ ~VerifiedAt(resp.outcome.refreshToken, access_secret, req.at)
    /\ ~VerifiedAt(held.accessToken, refresh_secret, now)
    /\ ~VerifiedAt(held.refreshToken, access_secret, now)
    /\ (IsRefresh /\ presented.form = "jwt" /\ presented = held.accessToken)
            => /\ resp.outcome.kind = "throw"
               /\ resp.outcome.error.status = "401"

\* C7: a successful refreshToken returns one new access token (access secret,
\* 60 s) for the user stored under the token's id and no refresh token; the
\* refresh token a login returned keeps being accepted, unrotated, while it
\* is unexpired and its user exists.
C7_RefreshReissuesAccessOnly ==
    /\ (IsRefresh /\ resp.outcome.kind = "return") =>
            /\ resp.outcome.refreshToken = Undefined
            /\ resp.outcome.accessToken.form = "jwt"
            /\ resp.outcome.accessToken.key = access_secret
            /\ resp.outcome.accessToken.iat = req.at
            /\ resp.outcome.accessToken.exp = req.at + 60
            /\ \E i \in 1..Len(users) :
                    /\ users[i].id = presented.id
                    /\ resp.outcome.accessToken.id = users[i].id
                    /\ resp.outcome.accessToken.email = users[i].email
    /\ (/\ IsRefresh
        /\ held.refreshToken.form = "jwt"
        /\ presented = held.refreshToken
        /\ req.at < held.refreshToken.iat + 604800
        /\ \E i \in 1..Len(users) : users[i].id = presented.id)
            => resp.outcome.kind = "return"

\* a refresh succeeded with the refresh token of a login after the access
\* token of that login had expired
C7_Witness ==
    /\ IsRefresh
    /\ resp.outcome.kind = "return"
    /\ presented = held.refreshToken
    /\ req.at >= held.accessToken.exp

(***************************************************************************)
(* Properties of the access gate                                           *)
(***************************************************************************)
\* the Authorization header of the last request is 'Bearer <token>'
bearer ==
    IF /\ req.authorization.present
       /\ Len(req.authorization.words) >= 2
       /\ req.authorization.words[1].text = "Bearer"
    THEN req.authorization.words[2]
    ELSE Undefined

\* C5: a client holding no access token that posts the email and password of
\* a stored user to auth/login reaches the login handler and receives the
\* token pair.
C5_LoginReachableUnauthenticated ==
    (/\ req.route = "auth/login"
     /\ ~req.authorization.present
     /\ \E i \in 1..Len(users) :
            users[i].email = req.email /\ plain[i] = req.password)
        => /\ resp.reached
           /\ resp.outcome.kind = "return"
           /\ resp.outcome.accessToken.form = "jwt"
           /\ resp.outcome.refreshToken.form = "jwt"

OnSuccessPath == handled.kind = "return" /\ envelope.shape = "success"

\* the handler result carries the field, whatever its value
Carries(field) == handled.value.kind = "object" /\ field # Absent

\* the field is there and holds a non-empty value
Has(field) == field \notin {Absent, "undefined", "null", "0", "''"}

\* C8: on the success path data is r.data whenever r carries a data field,
\* whatever its value (null, 0, false and '' included); otherwise undefined
\* when r carries a (non-empty) message field; otherwise the whole result r.
C8_DataPrecedence ==
    OnSuccessPath =>
        IF Carries(handled.value.data)
        THEN envelope.data = Atom(handled.value.data)
        ELSE IF Carries(handled.value.message) /\ Has(handled.value.message)
        THEN envelope.data = Atom("undefined")
        ELSE envelope.data = handled.value

C10_ErrorEnvelope ==
    handled.kind = "throw" =>
        /\ envelope.shape = "error"
        /\ envelope.statusCode =
                IF Has(handled.error.status) THEN handled.error.status ELSE "500"
        /\ envelope.message =
                IF Has(handled.error.response_message)
                THEN handled.error.response_message
                ELSE IF Has(handled.error.message)
                THEN handled.error.message
                ELSE "Internal server error"
        /\ envelope.error =
                IF Has(handled.error.response_error)
                THEN handled.error.response_error
                ELSE IF Has(handled.error.name)
                THEN handled.error.name
                ELSE "Error"
        /\ envelope.data = Atom("null")
        /\ envelope.meta = Absent

\* a failure with a nested response and a different message of its own was
\* emitted with the nested message
C10_Witness ==
    /\ handled.kind = "throw"
    /\ handled.error.response_message = "User not found"
    /\ handled.error.message = "boom"
    /\ handled.error.status = "404"
    /\ envelope.message = "User not found"
    /\ envelope.statusCode = "404"

(***************************************************************************)
(* Further properties of the interceptor and of the user store             *)
(***************************************************************************)
\* C14: the shape of the envelope depends only on whether the handler threw:
\* a handler that returns, whatever it returns (null and undefined included),
\* gets the success envelope and never the error envelope; a handler that
\* throws gets the error envelope and never the success envelope.
C14_ShapeFollowsHandler ==
    /\ handled.kind = "return" => envelope.shape = "success"
    /\ handled.kind = "throw" => envelope.shape = "error"

\* C16: no two stored users have the same email.
C16_EmailUnique ==
    \A i \in 1..Len(users) : \A j \in 1..Len(users) :
        users[i].email = users[j].email => i = j

(***************************************************************************)
(* Properties of TodosService                                              *)
(***************************************************************************)
ById == {"findOne", "update", "remove"}

Stored(rows, id) == \E t \in rows : t.id = id

\* the call that completed in this step
Completes(op) == finished' # finished /\ finished'.request.op = op

\* the write of the update or remove in flight in slot ran in this step
Writes(slot) == inflight[slot].pc = "found" /\ inflight'[slot].pc = "idle"

C13_ByIdOperations ==
    /\ [](finished.outcome.kind = "throw" =>
            /\ finished.request.op \in ById
            /\ finished.outcome.error = NotFoundException("Todo not found")
            /\ finished.outcome.error.status = "404")
    /\ [][/\ (finished' # finished /\ finished'.outcome.kind = "throw") =>
                /\ ~Stored(todos, finished'.request.id)
                /\ todos' = todos
          /\ Completes("findOne") =>
                /\ todos' = todos
                /\ finished'.outcome.kind = "return" =>
                        /\ Stored(todos, finished'.request.id)
                        /\ finished'.todo \subseteq todos
                        /\ \A t \in finished'.todo :
                                t.id = finished'.request.id
          /\ \A s \in Slots :
                /\ (inflight[s].pc = "idle" /\ inflight'[s].pc = "found") =>
                        /\ Stored(todos, inflight'[s].request.id)
                        /\ todos' = todos
                /\ Writes(s) =>
                    LET r == inflight[s].request
                    IN  /\ \A t \in todos : t.id # r.id => t \in todos'
                        /\ \A u \in todos' : u.id # r.id => u \in todos
                        /\ r.op = "remove" => ~Stored(todos', r.id)
                        /\ r.op = "update" =>
                            /\ Stored(todos', r.id) <=> Stored(todos, r.id)
                            /\ \A t \in todos, u \in todos' :
                                (t.id = r.id /\ u.id = r.id) =>
                                    /\ u.title = r.dto.title
                                    /\ u.description = t.description
                                    /\ u.user_id = t.user_id
                                    /\ u.created_at = t.created_at
         ]_vars

\* a remove deleted its todo and another todo is still stored
C13_Witness ==
    /\ finished.request.op = "remove"
    /\ finished.outcome.kind = "return"
    /\ finished.affected = 1
    /\ ~Stored(todos, finished.request.id)
    /\ todos # {}

\* C15: findOne, update and remove never refuse a call because of who
\* makes it: whenever a todo with the id is stored the lookup passes, for
\* the owner and for every other user alike, so a user can read, change and
\* delete a todo another user created.
C15_NoOwnershipCheck ==
    [][/\ (finished' # finished /\ finished'.request.op \in ById
                /\ Stored(todos, finished'.request.id)) =>
            finished'.outcome.kind = "return"
       /\ \A s \in Slots :
            (inflight[s].pc = "found" /\ inflight'[s].pc = "idle") =>
                /\ finished'.request = inflight[s].request
                /\ finished'.outcome.kind = "return"
      ]_vars

\* a user changed the title of a todo that another user created
C15_Witness ==
    /\ finished.request.op = "update"
    /\ finished.outcome.kind = "return"
    /\ finished.outcome.message = "Todo updated successfully"
    /\ finished.affected = 1
    /\ \E t \in todos :
            /\ t.id = finished.request.id
            /\ t.user_id # finished.request.caller
            /\ t.title = UpdateTitle

\* C17: a success reply is only given for a write that took effect: of the
\* remove calls for one id at most one replies 'Todo deleted successfully',
\* and an update that replies success changed a todo that was stored when
\* the write ran.
C17_SuccessMeansEffect ==
    /\ \A id \in 1..MaxTodos : deleted_ok[id] <= 1
    /\ (finished.request.op = "update" /\ finished.outcome.kind = "return")
            => finished.affected = 1

(***************************************************************************)
(* Properties of a whole request                                           *)
(***************************************************************************)
Is2xx(statusCode) == statusCode \in {"200", "201", "204"}

\* C11: every failure, raised by the gate or by a handler, is converted by
\* the interceptor and reaches the caller as the error envelope: the body the
\* caller receives has the envelope's statusCode, which is not 2xx, its
\* message, its error and data null.
C11_FailuresEnveloped ==
    (wire.from # "none" /\ resp.outcome.kind = "throw") =>
        /\ handled.kind = "throw"
        /\ envelope.shape = "error"
        /\ wire.statusCode = envelope.statusCode
        /\ ~Is2xx(wire.statusCode)
        /\ wire.message = envelope.message
        /\ wire.error = envelope.error
        /\ wire.error # Absent
        /\ wire.data = Atom("null")

====
